---- MODULE Spec2Model ----
(***************************************************************************)
(* Model of env.go: Parse / ParseWithFuncs walk the fields of a struct,    *)
(* resolve each field's source string from the environment (get) and       *)
(* convert and store it (set, handleSlice, handleTextUnmarshaler).         *)
(*                                                                         *)
(* Strings are sequences of one-character strings.  A Go value is a record *)
(* [tag, n, s, kids]: tag names its shape, n is an integer payload, s a    *)
(* string payload and kids the children (struct fields, slice elements or  *)
(* the pointee of a non-nil pointer).                                      *)
(***************************************************************************)
EXTENDS Integers, Sequences, FiniteSets, TLC

\* ------------------------------------------------------------ bounds
\* Number of fields of the root struct handed to Parse.
MaxFields == 2
\* Number of Parse / ParseWithFuncs calls made on the same struct.
MaxCalls == 2

\* ------------------------------------------------------------ strings
Empty == << >>
Comma == <<",">>
Required == <<"r","e","q","u","i","r","e","d">>
TrueLit == <<"t","r","u","e">>

Digits == {"0","1","2","3","4","5","6","7","8","9"}
Letters == {"K","O","F","x","a","r","e","q","u","i","d","t","T","R","U","E","b"}

\* strings.Index: position of the first occurrence of sep in s, 0 if none.
Index(s, sep) ==
  LET hits == {i \in 1..(Len(s) - Len(sep) + 1) : SubSeq(s, i, i + Len(sep) - 1) = sep}
  IN IF hits = {} THEN 0 ELSE CHOOSE i \in hits : \A j \in hits : i <= j

\* strings.Split(s, sep): with an empty sep the string is exploded into its
\* characters, otherwise it is cut at every occurrence of sep, left to right.
RECURSIVE Split(_, _)
Split(s, sep) ==
  IF sep = Empty THEN [i \in 1..Len(s) |-> <<s[i]>>]
  ELSE LET at == Index(s, sep)
       IN IF at = 0 THEN <<s>>
          ELSE <<SubSeq(s, 1, at - 1)>> \o Split(SubSeq(s, at + Len(sep), Len(s)), sep)

\* strings.ToLower on the letters the tags use.
LowerChar(c) ==
  CASE c = "T" -> "t" [] c = "R" -> "r" [] c = "U" -> "u" [] c = "E" -> "e"
    [] c = "K" -> "k" [] c = "O" -> "o" [] c = "F" -> "f" [] OTHER -> c
ToLower(s) == [i \in 1..Len(s) |-> LowerChar(s[i])]

\* ------------------------------------------------------------ environment
VARIABLES env, schema, OnEnvVarSet, root, stack, pc, err, errAt, got,
          hooks, before, prev, call, calls

vars == <<env, schema, OnEnvVarSet, root, stack, pc, err, errAt, got,
          hooks, before, prev, call, calls>>

\* os.LookupEnv: the environment is a function from the keys that are set.
LookupEnv(key) ==
  IF key \in DOMAIN env THEN [value |-> env[key], ok |-> TRUE]
  ELSE [value |-> Empty, ok |-> FALSE]

\* os.Getenv, the mapping os.ExpandEnv substitutes with.
Getenv(key) == LookupEnv(key).value

isShellSpecialVar(c) == c \in ({"*","#","$","@","!","?","-"} \cup Digits)
isAlphaNum(c) == c = "_" \/ c \in Digits \/ c \in Letters

\* Length of the longest prefix of s made of name characters.
RECURSIVE NameLen(_)
NameLen(s) == IF s # Empty /\ isAlphaNum(Head(s)) THEN 1 + NameLen(Tail(s)) ELSE 0

\* os.getShellName: the variable name that follows a "$" and the number of
\* characters it takes.
getShellName(s) ==
  IF Head(s) = "{" THEN
    IF Len(s) > 2 /\ isShellSpecialVar(s[2]) /\ s[3] = "}"
    THEN [name |-> <<s[2]>>, w |-> 3]
    ELSE LET close == Index(Tail(s), <<"}">>)
         IN IF close = 0 THEN [name |-> Empty, w |-> 1]
            ELSE IF close = 1 THEN [name |-> Empty, w |-> 2]
            ELSE [name |-> SubSeq(s, 2, close), w |-> close + 1]
  ELSE IF isShellSpecialVar(Head(s)) THEN [name |-> <<Head(s)>>, w |-> 1]
  ELSE [name |-> SubSeq(s, 1, NameLen(s)), w |-> NameLen(s)]

\* os.ExpandEnv: replaces ${var} and $var by the variable's value (empty
\* when unset); a "$" that ends the string or is followed by no name stays.
RECURSIVE ExpandEnv(_)
ExpandEnv(s) ==
  IF s = Empty THEN Empty
  ELSE IF Head(s) = "$" /\ Len(s) > 1 THEN
    LET r == getShellName(Tail(s))
        piece == IF r.name = Empty /\ r.w > 0 THEN Empty
                 ELSE IF r.name = Empty THEN <<"$">>
                 ELSE Getenv(r.name)
    IN piece \o ExpandEnv(SubSeq(s, r.w + 2, Len(s)))
  ELSE <<Head(s)>> \o ExpandEnv(Tail(s))

\* ------------------------------------------------------------ errors
\* An error value: its kind and the key or option name its message carries.
Error(kind, what) == [kind |-> kind, what |-> what]
NoErr == Error("nil", Empty)
ErrNotAStructPtr == Error("ErrNotAStructPtr", Empty)

\* ------------------------------------------------------------ key resolver
\* A field descriptor (reflect.StructField with the field's initial value):
\* [type, tag, def, expand, sep, init] where tag, def, expand and sep are the
\* env, envDefault, envExpand and envSeparator struct tags.
Field(type, tag, def, expand, sep, init) ==
  [type |-> type, tag |-> tag, def |-> def, expand |-> expand, sep |-> sep,
   init |-> init]

parseKeyForOption(key) ==
  LET opts == Split(key, Comma) IN [key |-> opts[1], opts |-> Tail(opts)]

\* A getRequired that takes an unset key for an empty value.
getRequiredLenient(key) == [val |-> LookupEnv(key).value, err |-> NoErr]

getRequired(key) ==
  LET r == LookupEnv(key)
  IN IF r.ok THEN [val |-> r.value, err |-> NoErr]
     ELSE [val |-> Empty, err |-> Error("required", key)]

\* A getOr that forgets the default.
getOrNoDefault(key, defaultValue) == LookupEnv(key).value

getOr(key, defaultValue) ==
  LET r == LookupEnv(key) IN IF r.ok THEN r.value ELSE defaultValue

\* One turn of the option loop of get: the empty option changes nothing,
\* "required" assigns both val and err, any other option assigns err.
ApplyOption(acc, key, opt) ==
  IF opt = Empty THEN acc
  ELSE IF opt = Required THEN getRequired(key)
  ELSE [val |-> acc.val, err |-> Error("option", opt)]

RECURSIVE OptionLoop(_, _, _)
OptionLoop(acc, key, opts) ==
  IF opts = << >> THEN acc
  ELSE OptionLoop(ApplyOption(acc, key, Head(opts)), key, Tail(opts))

get(field) ==
  LET ko == parseKeyForOption(field.tag)
      val == getOr(ko.key, field.def)
      expanded == IF ToLower(field.expand) = TrueLit THEN ExpandEnv(val) ELSE val
  IN OptionLoop([val |-> expanded, err |-> NoErr], ko.key, ko.opts)

\* ------------------------------------------------------------ values
V(tag, n, s, kids) == [tag |-> tag, n |-> n, s |-> s, kids |-> kids]
IntV(n) == V("int", n, Empty, << >>)
StrV(s) == V("str", 0, s, << >>)
TextV(s) == V("text", 0, s, << >>)
FuncV(who, s) == V(who, 0, s, << >>)
Nil == V("nil", 0, Empty, << >>)
PtrV(v) == V("ptr", 0, Empty, <<v>>)
SliceV(elems) == V("slice", 0, Empty, elems)
StructV(kids) == V("struct", 0, Empty, kids)

\* ------------------------------------------------------------ types
\* The Go types of the model.  MyInt is a named integer type, Text a named
\* string type and Stamp a struct type whose pointers implement
\* encoding.TextUnmarshaler, URL and Duration are the types of the baseline
\* custom parsers, Inner is a struct with tagged fields, Root is the struct
\* handed to Parse.
Kind(t) ==
  CASE t \in {"int", "MyInt"} -> "Int"
    [] t = "Duration" -> "Int64"
    [] t \in {"string", "Text"} -> "String"
    [] t \in {"URL", "Stamp", "Inner", "Root"} -> "Struct"
    [] t \in {"*Inner", "*Text", "*Stamp", "*int"} -> "Ptr"
    [] t \in {"[]int", "[]*int", "[]Text", "[]*Text", "[]Inner"} -> "Slice"

\* reflect.Type.Elem of a pointer or slice type.
Elem(t) ==
  CASE t = "*Inner" -> "Inner" [] t = "*Text" -> "Text" [] t = "*Stamp" -> "Stamp"
    [] t = "*int" -> "int" [] t = "[]int" -> "int" [] t = "[]*int" -> "*int"
    [] t = "[]Text" -> "Text" [] t = "[]*Text" -> "*Text" [] t = "[]Inner" -> "Inner"

\* Whether a pointer to t implements encoding.TextUnmarshaler.
Unmarshals(t) == t \in {"Text", "Stamp"}

\* The fields of the struct types other than Root.
InnerFields ==
  << Field("MyInt", <<"F">>, Empty, Empty, Empty, IntV(0)),
     Field("URL", <<"K">>, Empty, Empty, Empty, StructV(<< >>)) >>

\* reflect.Zero: the zero value of a type.  URL and Stamp have no tagged
\* field, walking them resolves nothing, so their fields are left out.
Zero(t) ==
  CASE Kind(t) \in {"Int", "Int64"} -> IntV(0)
    [] Kind(t) = "String" -> StrV(Empty)
    [] Kind(t) = "Ptr" -> Nil
    [] Kind(t) = "Slice" -> SliceV(<< >>)
    [] t = "Inner" -> StructV([i \in 1..Len(InnerFields) |-> InnerFields[i].init])
    [] OTHER -> StructV(<< >>)

\* ------------------------------------------------------------ conversions
DigitVal(c) ==
  CASE c = "0" -> 0 [] c = "1" -> 1 [] c = "2" -> 2 [] c = "3" -> 3 [] c = "4" -> 4
    [] c = "5" -> 5 [] c = "6" -> 6 [] c = "7" -> 7 [] c = "8" -> 8 [] c = "9" -> 9

RECURSIVE Decimal(_)
Decimal(s) == IF s = Empty THEN 0 ELSE 10 * Decimal(SubSeq(s, 1, Len(s) - 1)) + DigitVal(s[Len(s)])

\* strconv.ParseInt(v, 10, bits): an optional sign and at least one digit.
\* The strings of the model hold fewer than ten digits, so the value is in
\* the range of both widths the parsers ask for (32 and 64).
ParseInt(v) ==
  LET signed == v # Empty /\ Head(v) \in {"+", "-"}
      body == IF signed THEN Tail(v) ELSE v
      syntax == body # Empty /\ \A i \in 1..Len(body) : body[i] \in Digits
  IN IF ~syntax THEN [val |-> IntV(0), ok |-> FALSE]
     ELSE IF signed /\ Head(v) = "-" THEN [val |-> IntV(0 - Decimal(body)), ok |-> TRUE]
     ELSE [val |-> IntV(Decimal(body)), ok |-> TRUE]

\* defaultBuiltInParsers, for the kinds of the model's types.
HasBuiltIn(kind) == kind \in {"Int", "Int64", "String"}
BuiltIn(kind, v) ==
  CASE kind \in {"Int", "Int64"} -> ParseInt(v)
    [] kind = "String" -> [val |-> StrV(v), ok |-> TRUE]

\* The functions a CustomParsers map holds: the baseline ones of
\* defaultCustomParsers and the caller's.  The caller's function and
\* UnmarshalText reject the strings that contain an "x".
Rejects(v) == \E i \in 1..Len(v) : v[i] = "x"
Custom(who, v) ==
  IF who = "caller" /\ Rejects(v) THEN [val |-> FuncV(who, v), ok |-> FALSE]
  ELSE [val |-> FuncV(who, v), ok |-> TRUE]
UnmarshalText(v) ==
  IF Rejects(v) THEN [val |-> TextV(Empty), ok |-> FALSE]
  ELSE [val |-> TextV(v), ok |-> TRUE]

\* A CustomParsers map: a function from the registered types to who
\* registered the parser.
NoFuncs == [t \in {} |-> "caller"]
defaultCustomParsers == [t \in {"URL", "Duration"} |-> "baseline"]
Merge(base, over) ==
  [t \in DOMAIN base \cup DOMAIN over |-> IF t \in DOMAIN over THEN over[t] ELSE base[t]]

\* ------------------------------------------------------------ value setter
\* The result of a setter: the storage of the field after the call and the
\* error returned.
Stored(val, e) == [val |-> val, err |-> e]

Lookup(funcMap, t) == IF t \in DOMAIN funcMap THEN funcMap[t] ELSE "none"

\* The error of newParseError for a conversion that failed, of
\* newNoParserError, and of the pointer-slice case of handleSlice.
ParseError == Error("parse", Empty)
NoParserError == Error("noparser", Empty)
PtrSliceError == Error("ptrslice", Empty)

\* handleTextUnmarshaler: a nil pointer field is given fresh storage first,
\* then the field (or its address) is asked for encoding.TextUnmarshaler.
handleTextUnmarshaler(field, value, sf) ==
  IF Kind(sf.type) = "Ptr" THEN
    LET alloc == IF field = Nil THEN PtrV(Zero(Elem(sf.type))) ELSE field
    IN IF ~Unmarshals(Elem(sf.type)) THEN Stored(alloc, NoParserError)
       ELSE LET r == UnmarshalText(value)
            IN IF r.ok THEN Stored(PtrV(r.val), NoErr) ELSE Stored(alloc, ParseError)
  ELSE IF ~Unmarshals(sf.type) THEN Stored(field, NoParserError)
  ELSE LET r == UnmarshalText(value)
       IN IF r.ok THEN Stored(r.val, NoErr) ELSE Stored(field, ParseError)

\* The loop of parseTextUnmarshalers over the parts, building the slice.
RECURSIVE UnmarshalLoop(_, _, _)
UnmarshalLoop(data, ptrElems, slice) ==
  IF data = << >> THEN [ok |-> TRUE, val |-> slice]
  ELSE LET r == UnmarshalText(Head(data))
       IN IF ~r.ok THEN [ok |-> FALSE, val |-> slice]
          ELSE UnmarshalLoop(Tail(data), ptrElems,
                 Append(slice, IF ptrElems THEN PtrV(r.val) ELSE r.val))

parseTextUnmarshalers(field, data, sf) ==
  LET r == UnmarshalLoop(data, Kind(Elem(sf.type)) = "Ptr", << >>)
  IN IF r.ok THEN Stored(SliceV(r.val), NoErr) ELSE Stored(field, ParseError)

\* The loop of handleSlice over the parts: each part is converted first, and
\* a slice of pointers is refused once a part has been converted.
RECURSIVE SliceLoop(_, _, _, _, _)
SliceLoop(parts, who, elemType, ptrElems, result) ==
  IF parts = << >> THEN [err |-> NoErr, val |-> result]
  ELSE LET r == IF who # "none" THEN Custom(who, Head(parts))
                ELSE BuiltIn(Kind(elemType), Head(parts))
       IN IF ~r.ok THEN [err |-> ParseError, val |-> result]
          ELSE IF ptrElems THEN [err |-> PtrSliceError, val |-> result]
          ELSE SliceLoop(Tail(parts), who, elemType, ptrElems, Append(result, r.val))

\* A handleSlice that cuts at commas whatever envSeparator says.
handleSliceCommaOnly(field, value, sf, funcMap) ==
  LET parts == Split(value, Comma)
      ptrElems == Kind(Elem(sf.type)) = "Ptr"
      elemType == IF ptrElems THEN Elem(Elem(sf.type)) ELSE Elem(sf.type)
      who == Lookup(funcMap, elemType)
  IN IF Unmarshals(elemType) THEN parseTextUnmarshalers(field, parts, sf)
     ELSE IF who = "none" /\ ~HasBuiltIn(Kind(elemType)) THEN Stored(field, NoParserError)
     ELSE LET r == SliceLoop(parts, who, elemType, ptrElems, << >>)
          IN IF r.err = NoErr THEN Stored(SliceV(r.val), NoErr) ELSE Stored(field, r.err)

handleSlice(field, value, sf, funcMap) ==
  LET separator == IF sf.sep = Empty THEN Comma ELSE sf.sep
      parts == Split(value, separator)
      ptrElems == Kind(Elem(sf.type)) = "Ptr"
      elemType == IF ptrElems THEN Elem(Elem(sf.type)) ELSE Elem(sf.type)
      who == Lookup(funcMap, elemType)
  IN IF Unmarshals(elemType) THEN parseTextUnmarshalers(field, parts, sf)
     ELSE IF who = "none" /\ ~HasBuiltIn(Kind(elemType)) THEN Stored(field, NoParserError)
     ELSE LET r == SliceLoop(parts, who, elemType, ptrElems, << >>)
          IN IF r.err = NoErr THEN Stored(SliceV(r.val), NoErr) ELSE Stored(field, r.err)

\* set: slices first, then the custom parser of the field's type, then the
\* built-in parser of its kind, then encoding.TextUnmarshaler.
set(field, sf, value, funcMap) ==
  IF Kind(sf.type) = "Slice" THEN handleSlice(field, value, sf, funcMap)
  ELSE IF Lookup(funcMap, sf.type) # "none" THEN
    LET r == Custom(Lookup(funcMap, sf.type), value)
    IN IF r.ok THEN Stored(r.val, NoErr) ELSE Stored(field, ParseError)
  ELSE IF HasBuiltIn(Kind(sf.type)) THEN
    LET r == BuiltIn(Kind(sf.type), value)
    IN IF r.ok THEN Stored(r.val, NoErr) ELSE Stored(field, ParseError)
  ELSE handleTextUnmarshaler(field, value, sf)

\* ------------------------------------------------------------ struct walker
\* reflect.Type.Field: the fields of a struct type; those of Root are the
\* ones drawn for this run.
Fields(t) ==
  IF t = "Root" THEN schema ELSE IF t = "Inner" THEN InnerFields ELSE << >>

\* The value a path of field indices leads to; a pointer on the way is
\* followed.
RECURSIVE ValAt(_, _)
ValAt(v, path) ==
  IF v.tag = "ptr" THEN ValAt(v.kids[1], path)
  ELSE IF path = << >> THEN v
  ELSE ValAt(v.kids[Head(path)], Tail(path))

\* The value v with the field at path replaced by w (reflect.Value.Set).
RECURSIVE SetAt(_, _, _)
SetAt(v, path, w) ==
  IF path = << >> THEN w
  ELSE IF v.tag = "ptr" THEN PtrV(SetAt(v.kids[1], path, w))
  ELSE [v EXCEPT !.kids[Head(path)] = SetAt(v.kids[Head(path)], Tail(path), w)]

\* The storage of the field at path, not following a pointer held there.
FieldAt(v, path) ==
  LET holder == ValAt(v, SubSeq(path, 1, Len(path) - 1))
  IN holder.kids[path[Len(path)]]

\* A frame of doParse: the struct walked (ref, as a path from the root, and
\* refType), the loop index i and the parsers in force (funcMap).
Frame(ref, refType, i, funcMap) ==
  [ref |-> ref, refType |-> refType, i |-> i, funcMap |-> funcMap]

Top == stack[Len(stack)]
TopField == Fields(Top.refType)[Top.i]
TopPath == Append(Top.ref, Top.i)
Advance == [stack EXCEPT ![Len(stack)].i = @ + 1]

\* ------------------------------------------------------------ inputs
S1 == <<"1">>
S12 == <<"1", ",", "2">>
S1X == <<"1", ",", "x">>
S21 == <<"2", ";", "1">>
SO == <<"$", "{", "O", "}">>
KeyK == <<"K">>
KeyO == <<"O">>
KeyF == <<"F">>

\* The environments of the runs: which of K, O and F are set, and to what.
Envs ==
  { [k \in {} |-> Empty],
    (KeyK :> S1) @@ (KeyF :> <<"2">>),
    (KeyK :> S12) @@ (KeyO :> <<"2">>),
    (KeyK :> SO) @@ (KeyO :> <<"2">>),
    (KeyK :> S1X) @@ (KeyF :> <<"x">>),
    (KeyK :> S21) @@ (KeyF :> S1) }

\* The fields a root struct is made of.
FieldPool ==
  { Field("int", KeyK, <<"2">>, Empty, Empty, IntV(0)),
    Field("string", <<"K", ",">> \o Required, S1, <<"T","R","U","E">>, Empty, StrV(Empty)),
    Field("int", <<"K", ",">> \o Required \o <<",", "b">>, Empty, Empty, Empty, IntV(0)),
    Field("string", <<"K", ",", "b", ",">> \o Required, Empty, Empty, Empty, StrV(Empty)),
    Field("string", <<"K", ",">>, SO, TrueLit, Empty, StrV(Empty)),
    Field("MyInt", KeyK, Empty, Empty, Empty, IntV(0)),
    Field("Inner", Empty, Empty, Empty, Empty, Zero("Inner")),
    Field("*Inner", Empty, Empty, Empty, Empty, PtrV(Zero("Inner"))),
    Field("*Text", KeyK, Empty, Empty, Empty, Nil),
    Field("*int", KeyK, Empty, Empty, Empty, Nil),
    Field("[]*int", KeyK, Empty, Empty, Empty, SliceV(<< >>)),
    Field("[]int", KeyK, Empty, Empty, <<";">>, SliceV(<<IntV(7)>>)),
    Field("[]Text", KeyK, Empty, Empty, Empty, SliceV(<< >>)) }

Schemas == UNION {[1..n -> FieldPool] : n \in 1..MaxFields}

\* The CustomParsers maps a caller passes to ParseWithFuncs.
CallerFuncs == { [t \in {"MyInt", "URL"} |-> "caller"] }

\* ------------------------------------------------------------ state
NoGet == [path |-> << >>, value |-> Empty, err |-> NoErr]
NoCall == [fn |-> "none", byPointer |-> FALSE, funcMap |-> NoFuncs]

Init ==
  /\ env \in Envs
  /\ schema \in Schemas
  /\ OnEnvVarSet \in BOOLEAN
  /\ root = StructV([i \in 1..Len(schema) |-> schema[i].init])
  /\ stack = << >>
  /\ pc = "idle"
  /\ err = NoErr
  /\ errAt = << >>
  /\ got = NoGet
  /\ hooks = << >>
  /\ before = root
  /\ prev = [root |-> root, err |-> NoErr, call |-> NoCall]
  /\ call = NoCall
  /\ calls = 0

\* ------------------------------------------------------------ entry points
\* ParseWithFuncs(v, funcMap): v is either the address of the root struct or
\* the struct passed by value.  A later call repeats the first one, with
\* the same arguments.
Enter(fn, byPointer, funcMap) ==
  /\ pc \in {"idle", "done"}
  /\ calls < MaxCalls
  /\ calls > 0 => call = [fn |-> fn, byPointer |-> byPointer, funcMap |-> funcMap]
  /\ calls' = calls + 1
  /\ call' = [fn |-> fn, byPointer |-> byPointer, funcMap |-> funcMap]
  /\ prev' = [root |-> root, err |-> err, call |-> call]
  /\ before' = root
  /\ hooks' = << >>
  /\ got' = NoGet
  /\ errAt' = << >>
  /\ IF byPointer
     THEN /\ stack' = <<Frame(<< >>, "Root", 1, Merge(defaultCustomParsers, funcMap))>>
          /\ pc' = "walking"
          /\ err' = NoErr
     ELSE /\ stack' = << >>
          /\ pc' = "done"
          /\ err' = ErrNotAStructPtr
  /\ UNCHANGED <<env, schema, OnEnvVarSet, root>>

ParseWithFuncs == \E funcMap \in CallerFuncs : Enter("ParseWithFuncs", TRUE, funcMap)

Parse == \E byPointer \in BOOLEAN : Enter("Parse", byPointer, NoFuncs)

\* ------------------------------------------------------------ doParse
\* A doParse that notes the error and goes on to the next field.
AbortAndGoOn(e) ==
  /\ err' = e
  /\ errAt' = TopPath
  /\ stack' = Advance
  /\ pc' = pc

\* return err: every caller up the stack returns it at once.
Abort(e) ==
  /\ err' = e
  /\ errAt' = TopPath
  /\ stack' = << >>
  /\ pc' = "done"

Walking == pc = "walking" /\ Top.i <= Len(Fields(Top.refType))
IsOwnedPtr == Kind(TopField.type) = "Ptr" /\ FieldAt(root, TopPath) # Nil

\* The loop ends: return nil to the caller, or to the caller of Parse.
Return ==
  /\ pc = "walking"
  /\ Top.i > Len(Fields(Top.refType))
  /\ stack' = SubSeq(stack, 1, Len(stack) - 1)
  /\ pc' = IF Len(stack) = 1 THEN "done" ELSE "walking"
  /\ UNCHANGED <<env, schema, OnEnvVarSet, root, err, errAt, got, hooks, before,
                 prev, call, calls>>

\* A non-nil pointer field is handed to Parse, which walks the pointee with
\* the baseline parsers or refuses a pointee that is no struct; get is not
\* called in this turn of the loop.
StepPointer ==
  /\ Walking
  /\ IsOwnedPtr
  /\ IF Kind(Elem(TopField.type)) # "Struct"
     THEN Abort(ErrNotAStructPtr)
     ELSE /\ stack' = Append(Advance,
                 Frame(TopPath, Elem(TopField.type), 1, Merge(defaultCustomParsers, NoFuncs)))
          /\ UNCHANGED <<pc, err, errAt>>
  /\ got' = NoGet
  /\ UNCHANGED <<env, schema, OnEnvVarSet, root, hooks, before, prev, call, calls>>

\* get reports an error: doParse returns it.
StepResolveError ==
  /\ Walking
  /\ ~IsOwnedPtr
  /\ LET r == get(TopField)
     IN /\ r.err # NoErr
        /\ got' = [path |-> TopPath, value |-> r.val, err |-> r.err]
        /\ Abort(r.err)
  /\ UNCHANGED <<env, schema, OnEnvVarSet, root, hooks, before, prev, call, calls>>

\* The resolved value is empty: a struct field is walked with the same
\* parsers, any other field is skipped.
StepEmpty ==
  /\ Walking
  /\ ~IsOwnedPtr
  /\ LET r == get(TopField)
     IN /\ r.err = NoErr
        /\ r.val = Empty
        /\ got' = [path |-> TopPath, value |-> r.val, err |-> r.err]
  /\ stack' = IF Kind(TopField.type) = "Struct"
              THEN Append(Advance, Frame(TopPath, TopField.type, 1, Top.funcMap))
              ELSE Advance
  /\ UNCHANGED <<env, schema, OnEnvVarSet, root, pc, err, errAt, hooks, before,
                 prev, call, calls>>

\* The resolved value is not empty: set converts and stores it, then the
\* hook is told, or doParse returns set's error.
StepSet ==
  /\ Walking
  /\ ~IsOwnedPtr
  /\ LET r == get(TopField)
         w == set(FieldAt(root, TopPath), TopField, r.val, Top.funcMap)
     IN /\ r.err = NoErr
        /\ r.val # Empty
        /\ got' = [path |-> TopPath, value |-> r.val, err |-> r.err]
        /\ root' = SetAt(root, TopPath, w.val)
        /\ IF w.err # NoErr
           THEN Abort(w.err) /\ UNCHANGED hooks
           ELSE /\ stack' = Advance
                /\ hooks' = IF OnEnvVarSet
                            THEN Append(hooks, [path |-> TopPath, value |-> r.val])
                            ELSE hooks
                /\ UNCHANGED <<pc, err, errAt>>
  /\ UNCHANGED <<env, schema, OnEnvVarSet, before, prev, call, calls>>

Next ==
  \/ Parse
  \/ ParseWithFuncs
  \/ Return
  \/ StepPointer
  \/ StepResolveError
  \/ StepEmpty
  \/ StepSet

Spec == Init /\ [][Next]_vars

\* ------------------------------------------------------------ properties
\* The descriptor of the field a path leads to (paths are one or two deep).
StructOf(t) == IF Kind(t) = "Ptr" THEN Elem(t) ELSE t
Desc(path) ==
  IF Len(path) = 1 THEN schema[path[1]]
  ELSE Fields(StructOf(schema[path[1]].type))[path[2]]

\* The field get was last called for, its key and its options.
Resolved == got.path # << >>
GotField == Desc(got.path)
GotKey == parseKeyForOption(GotField.tag).key
GotOpts == parseKeyForOption(GotField.tag).opts
KeyAbsent == GotKey \notin DOMAIN env
HasRequired == \E i \in 1..Len(GotOpts) : GotOpts[i] = Required
Unsupported == {GotOpts[i] : i \in 1..Len(GotOpts)} \ {Empty, Required}
GotStorage == FieldAt(root, got.path)
Untouched == GotStorage = FieldAt(before, got.path)
Expands == ToLower(GotField.expand) = TrueLit

\* C1 as stated: a field with the option "required" anywhere among its
\* options and an absent key makes the call return the missing-required
\* error naming the key, and the field is not written.
C1_AsStated ==
  (Resolved /\ HasRequired /\ KeyAbsent)
    => (pc = "done" /\ err = Error("required", GotKey) /\ Untouched)

\* C1 amended: a resolved field with the option "required" and an absent key
\* makes the call fail: with the missing-required error naming the key, or,
\* when the tag also holds an unsupported option, possibly with the
\* unsupported-option error naming that option instead; the field, and so
\* its default, is never written.
C1_RequiredAbsentFails ==
  (Resolved /\ HasRequired /\ KeyAbsent)
    => /\ pc = "done"
       /\ got.err = err
       /\ \/ err = Error("required", GotKey)
          \/ Unsupported # {} /\ err.kind = "option" /\ err.what \in Unsupported
       /\ Untouched

C1_Witness ==
  /\ Resolved /\ HasRequired /\ KeyAbsent
  /\ GotField.def # Empty
  /\ err = Error("required", KeyK)
  /\ GotStorage = StrV(Empty)

\* C2: a field whose env tag holds an option other than "" and "required"
\* makes the call return the unsupported-option error naming that option,
\* wherever the option stands and whether the key is set or not.
C2_UnsupportedOptionFails ==
  (Resolved /\ Unsupported # {})
    => (pc = "done" /\ err.kind = "option" /\ err.what \in Unsupported)

\* C3: under ParseWithFuncs a non-slice field whose type has an entry in the
\* caller's funcMap, set from a non-empty value, holds the result of the
\* caller's function, also inside nested structs and behind struct pointers.
C3_CallerParserWins ==
  (/\ call.fn = "ParseWithFuncs" /\ Resolved /\ got.err = NoErr /\ err = NoErr
   /\ got.value # Empty /\ Kind(GotField.type) # "Slice"
   /\ GotField.type \in DOMAIN call.funcMap)
    => GotStorage = FuncV("caller", got.value)

\* C4: with envExpand "true" (in any case) and a set key whose value holds
\* "${O}", O set, the string handed to conversion has O's value in place of
\* "${O}", whatever the options of the field.
C4_ExpansionReachesConversion ==
  (/\ Resolved /\ Expands /\ ~KeyAbsent /\ got.err = NoErr
   /\ KeyO \in DOMAIN env /\ Index(env[GotKey], SO) # 0)
    => (Index(got.value, SO) = 0 /\ got.value = ExpandEnv(env[GotKey]))

\* The literal of an envDefault tag converted to an integer or string field.
Literal(sf) == IF Kind(sf.type) = "Int" THEN IntV(Decimal(sf.def)) ELSE StrV(sf.def)
HasDefault == GotField.def # Empty

\* C5 as stated: a field with an envDefault tag and an absent key resolves
\* to the literal text of the tag and ends up holding it, converted.
C5_AsStated ==
  (Resolved /\ HasDefault /\ KeyAbsent /\ Kind(GotField.type) \in {"Int", "String"})
    => (got.err = NoErr /\ got.value = GotField.def /\ GotStorage = Literal(GotField))

\* C5 amended: a resolved field with an envDefault tag and an absent key,
\* whose env tag holds no option other than "" and whose envExpand tag is
\* not "true", resolves to the literal text of envDefault, and an integer or
\* string field with no custom parser ends up holding that literal converted.
C5_DefaultWhenAbsent ==
  (Resolved /\ HasDefault /\ KeyAbsent /\ ~Expands /\ ~HasRequired /\ Unsupported = {})
    => /\ got.err = NoErr
       /\ got.value = GotField.def
       /\ (Kind(GotField.type) \in {"Int", "String"} /\ GotField.type \notin {"MyInt", "Text"})
            => (err = NoErr /\ GotStorage = Literal(GotField))

C5_Witness ==
  /\ Resolved /\ HasDefault /\ KeyAbsent /\ ~Expands /\ ~HasRequired /\ Unsupported = {}
  /\ got.value = <<"2">>
  /\ GotStorage = IntV(2)
  /\ FieldAt(before, got.path) = IntV(0)

\* C6: a second Parse on the same struct with the environment unchanged,
\* after a first Parse that succeeded, succeeds and leaves every field as
\* the first call left it.
C6_ParseIdempotent ==
  (/\ pc = "done" /\ calls >= 2 /\ call.fn = "Parse" /\ prev.call.fn = "Parse"
   /\ prev.err = NoErr)
    => (err = NoErr /\ root = prev.root)

\* C7: a slice field whose elements are pointers to a built-in type, with a
\* non-empty resolved value, makes the call fail with the pointer-slice
\* error whatever the value holds, and the field is not set.
C7_PointerSliceRefused ==
  (Resolved /\ GotField.type = "[]*int" /\ got.err = NoErr /\ got.value # Empty)
    => (pc = "done" /\ err = PtrSliceError /\ Untouched)

\* C10: when set returns an error for a field, the storage of the field is
\* as it was before the call; a nil pointer field is still nil.
C10_FailedSetLeavesField ==
  (pc = "done" /\ err.kind \in {"parse", "noparser", "ptrslice"})
    => FieldAt(root, errAt) = FieldAt(before, errAt)

\* strconv.Itoa and strings.Join, to read a slice back as text.
DigitChar(n) ==
  CASE n = 0 -> "0" [] n = 1 -> "1" [] n = 2 -> "2" [] n = 3 -> "3" [] n = 4 -> "4"
    [] n = 5 -> "5" [] n = 6 -> "6" [] n = 7 -> "7" [] n = 8 -> "8" [] n = 9 -> "9"
RECURSIVE Itoa(_)
Itoa(n) == IF n < 10 THEN <<DigitChar(n)>> ELSE Itoa(n \div 10) \o <<DigitChar(n % 10)>>
RECURSIVE Join(_, _)
Join(parts, sep) ==
  IF Len(parts) = 0 THEN Empty
  ELSE IF Len(parts) = 1 THEN parts[1]
  ELSE parts[1] \o sep \o Join(Tail(parts), sep)

\* The text an element of a converted slice was made from.
ElemText(v) == IF v.tag = "int" THEN Itoa(v.n) ELSE v.s
\* Whether a part converts to an element of the slice's type.
Converts(t, part) ==
  IF t = "[]int" THEN part # Empty /\ \A i \in 1..Len(part) : part[i] \in Digits
  ELSE \A i \in 1..Len(part) : part[i] # "x"
GotSep == IF GotField.sep = Empty THEN Comma ELSE GotField.sep
\* The number of separators in a string of the model (separators are one
\* character long).
Count(s, sep) == Cardinality({i \in 1..Len(s) : <<s[i]>> = sep})

\* C8: a slice field of scalar elements with a non-empty resolved value is
\* replaced, when every part converts, by the slice of the conversions of
\* the parts cut at envSeparator (comma by default), in input order;
\* otherwise the call fails with a parse error and the field keeps its
\* prior contents.
C8_SliceSplitAndConvert ==
  (Resolved /\ GotField.type \in {"[]int", "[]Text"} /\ got.err = NoErr /\ got.value # Empty)
    => LET elems == GotStorage.kids
           texts == [i \in 1..Len(elems) |-> ElemText(elems[i])]
           cuts == {i \in 1..Len(got.value) : <<got.value[i]>> = GotSep}
           bounds == <<0>> \o [i \in 1..Cardinality(cuts) |->
                        CHOOSE c \in cuts : Cardinality({d \in cuts : d < c}) = i - 1]
                        \o <<Len(got.value) + 1>>
           parts == [i \in 1..(Len(bounds) - 1) |->
                       SubSeq(got.value, bounds[i] + 1, bounds[i + 1] - 1)]
       IN IF \A i \in 1..Len(parts) : Converts(GotField.type, parts[i])
          THEN /\ err = NoErr
               /\ Len(elems) = Count(got.value, GotSep) + 1
               /\ texts = parts
               /\ Join(texts, GotSep) = got.value
               /\ \A i \in 1..Len(elems) :
                    elems[i].tag = IF GotField.type = "[]int" THEN "int" ELSE "text"
          ELSE pc = "done" /\ err = ParseError /\ Untouched

C8_Witness ==
  /\ Resolved /\ GotField.type = "[]int" /\ GotField.sep = <<";">>
  /\ got.value = S21
  /\ FieldAt(before, got.path) = SliceV(<<IntV(7)>>)
  /\ GotStorage = SliceV(<<IntV(2), IntV(1)>>)

\* The walk, told from the struct as it was when the call began.
\* A field is owned when it is a non-nil pointer; a root field is entered
\* when the walk goes on into its struct.
Owned(q) == Kind(Desc(q).type) = "Ptr" /\ FieldAt(before, q) # Nil
Entered(i) ==
  IF Owned(<<i>>) THEN Kind(Elem(schema[i].type)) = "Struct"
  ELSE /\ Kind(schema[i].type) = "Struct"
       /\ get(schema[i]) = [val |-> Empty, err |-> NoErr]
WalkPaths ==
  {<<i>> : i \in 1..Len(schema)}
    \cup UNION {{<<i, j>> : j \in 1..Len(Fields(StructOf(schema[i].type)))} :
                  i \in {k \in 1..Len(schema) : Entered(k)}}
\* Declaration order, depth first: a struct field comes before its fields.
Before(q, p) ==
  \/ q[1] < p[1]
  \/ q[1] = p[1] /\ Len(q) < Len(p)
  \/ q[1] = p[1] /\ Len(q) = 2 /\ Len(p) = 2 /\ q[2] < p[2]
\* The parsers in force for a field: a struct reached through a pointer is
\* walked by Parse, any other by the call itself.
FuncsAt(q) ==
  IF Len(q) = 2 /\ Kind(schema[q[1]].type) = "Ptr" THEN defaultCustomParsers
  ELSE Merge(defaultCustomParsers, call.funcMap)
\* What the turn of the loop for field q yields on its own: the error it
\* returns, whether it sets the field, and the storage of the field after.
Outcome(q) ==
  LET r == get(Desc(q))
      w == set(FieldAt(before, q), Desc(q), r.val, FuncsAt(q))
      keep == FieldAt(before, q)
  IN IF Owned(q)
     THEN [err |-> IF Entered(q[1]) THEN NoErr ELSE ErrNotAStructPtr,
           isSet |-> FALSE, val |-> keep, text |-> Empty]
     ELSE IF r.err # NoErr THEN [err |-> r.err, isSet |-> FALSE, val |-> keep, text |-> r.val]
     ELSE IF r.val = Empty THEN [err |-> NoErr, isSet |-> FALSE, val |-> keep, text |-> r.val]
     ELSE [err |-> w.err, isSet |-> w.err = NoErr, val |-> w.val, text |-> r.val]

\* C9: when the call returns an error, it is the error of the first field,
\* in declaration order, depth first, whose resolution or conversion fails;
\* every field before it holds the value written for it, every field after
\* it is as it was before the call, and the hook was called exactly once for
\* each field set before the failure and for no other field.
C9_FailFastInOrder ==
  (pc = "done" /\ err # NoErr /\ errAt # << >>)
    => /\ errAt \in WalkPaths
       /\ Outcome(errAt).err = err
       /\ \A q \in WalkPaths :
            /\ Before(q, errAt) =>
                 /\ Outcome(q).err = NoErr
                 /\ Outcome(q).isSet => FieldAt(root, q) = Outcome(q).val
                 /\ (~Outcome(q).isSet /\ (Len(q) = 2 \/ ~Entered(q[1])))
                      => FieldAt(root, q) = FieldAt(before, q)
            /\ Before(errAt, q) => FieldAt(root, q) = FieldAt(before, q)
       /\ IF OnEnvVarSet
          THEN /\ \A q \in WalkPaths :
                    (Before(q, errAt) /\ Outcome(q).isSet)
                      <=> (\E k \in 1..Len(hooks) : hooks[k].path = q)
               /\ \A k \in 1..Len(hooks) :
                    /\ hooks[k].path \in WalkPaths
                    /\ hooks[k].value = Outcome(hooks[k].path).text
                    /\ \A m \in 1..Len(hooks) : k < m => Before(hooks[k].path, hooks[m].path)
          ELSE hooks = << >>

C9_Witness ==
  /\ pc = "done" /\ err = ParseError /\ OnEnvVarSet
  /\ errAt = <<2, 1>>
  /\ Len(hooks) = 1 /\ hooks[1].path = <<1>>
  /\ FieldAt(root, <<1>>) # FieldAt(before, <<1>>)
  /\ FieldAt(root, <<2, 2>>) = FieldAt(before, <<2, 2>>)

====
